---- MODULE Spec2Model ----
(***************************************************************************)
(* CdkTextColumn (cdk/table/text-column.ts): a table column declared by    *)
(* name, which resolves its header text and data accessor in ngOnInit,     *)
(* registers its CdkColumnDef with the enclosing CdkTable, and removes it  *)
(* in ngOnDestroy.                                                         *)
(*                                                                         *)
(* JavaScript strings are sequences of one-character strings; `undefined`  *)
(* is a value of its own that is no string.                                *)
(***************************************************************************)
EXTENDS Naturals, Sequences, FiniteSets, TLC

\* ------------------------------------------------------------------ bounds

\* Longest column name / header text input, in characters.
MaxLen == 2

\* The CdkTextColumn instances that share the scope (and, when injected, the
\* one CdkTable).
Comps == {"c1", "c2"}

\* The instances whose template binds every input. The others bind only
\* `name` and leave headerText, dataAccessor and justify to their defaults.
FullyBound == {"c1"}

\* ------------------------------------------------------------ JS values

Alphabet == {"a", "A"}

\* The characters column names are made of.
NameAlphabet == {"a"}

\* JavaScript's undefined. A one-element tuple whose element is no character,
\* so that it differs from every string.
Undefined == <<"undefined">>

\* Values the name input is bound to: every name of at most MaxLen
\* characters, the empty one included.
NameInputs == UNION {[1..k -> NameAlphabet] : k \in 0..MaxLen}

\* Values the headerText input is bound to before ngOnInit (undefined: not
\* bound).
HeaderTextInputs == {Undefined, <<>>, <<"a">>}

\* String.prototype.toUpperCase on one character.
UpperChar(ch) == IF ch = "a" THEN "A" ELSE ch

\* String.prototype.toUpperCase.
ToUpperCase(s) == [i \in 1..Len(s) |-> UpperChar(s[i])]

\* String.prototype.slice(1).
Slice1(s) == IF Len(s) <= 1 THEN <<>> ELSE SubSeq(s, 2, Len(s))

\* The outcome of an expression evaluation: a value, or a thrown error.
Value(v) == [throws |-> "none", value |-> v]
Throw(e) == [throws |-> e, value |-> Undefined]

\* ------------------------------------------------------ TextColumnOptions

\* An absent optional function of TextColumnOptions / an unbound function
\* input.
NoFn == "undefined"

\* The functions a scope configures as defaultHeaderTextTransform.
HeaderTextTransforms == {"toUpperCase"}

\* The functions a scope configures as defaultDataAccessor, and the one a
\* template binds to the dataAccessor input.
DefaultDataAccessors == {"orNA"}
InputDataAccessors == {"inputAccessor"}

\* The accessor ngOnInit falls back to: (data, name) => data[name].
PropertyLookup == "propertyLookup"

TextColumnOptions ==
    [defaultHeaderTextTransform : HeaderTextTransforms \cup {NoFn},
     defaultDataAccessor : DefaultDataAccessors \cup {NoFn}]

EmptyOptions == [defaultHeaderTextTransform |-> NoFn, defaultDataAccessor |-> NoFn]

\* What the injector hands the constructor for TEXT_COLUMN_OPTIONS: the
\* token is @Optional, so null when no provider exists (null: an object
\* with none of the options' fields).
NoProvider == [null |-> TRUE]
InjectedOptions == TextColumnOptions \cup {NoProvider}

\* constructor: this._options = _options || {}
Constructor_options(injected) == IF injected = NoProvider THEN EmptyOptions ELSE injected

\* n => n.toUpperCase(), the configured transform; a TypeError on undefined.
ApplyTransform(fn, name) ==
    IF name = Undefined THEN Throw("TypeError") ELSE Value(ToUpperCase(name))

\* The row objects the accessors are applied to: property name -> value.
\* null and the number 42 are values; "undefined" is JavaScript's undefined.
Rows == {<<>>, (<<"a">> :> "42"), (<<"a">> :> "null"),
         (<<"a">> :> "42") @@ (<<"a", "a">> :> "Ann")}

\* data[name]: undefined when the object has no such property (the name
\* undefined reads the property called "undefined", which no row has).
GetProperty(data, name) ==
    IF name \in DOMAIN data THEN data[name] ELSE "undefined"

\* Calling an accessor function. "orNA" is (d, n) => d[n] ?? "N/A"; the
\* accessor a template binds returns a text of its own.
ApplyAccessor(f, data, name) ==
    CASE f = PropertyLookup -> GetProperty(data, name)
      [] f = "orNA" -> IF GetProperty(data, name) \in {"undefined", "null"}
                       THEN "N/A" ELSE GetProperty(data, name)
      [] OTHER -> "text"

\* ------------------------------------------------------------ the state

VARIABLES
    _table,        \* [Comps -> BOOLEAN]: whether a CdkTable was injected
    injected,      \* what the injector provided for TEXT_COLUMN_OPTIONS
    _options,      \* the options after the constructor's `|| {}`
    _name,         \* [Comps -> name]: the backing field of `name`
    headerText,    \* [Comps -> header text | Undefined]
    dataAccessor,  \* [Comps -> accessor function | NoFn]
    justify,       \* [Comps -> "start" | "end"]
    columnDef,     \* [Comps -> the component's own CdkColumnDef]
    phase,         \* [Comps -> lifecycle position of the instance]
    thrown,        \* [Comps -> what ngOnInit threw, "none" if nothing]
    registry,      \* the CdkTable's registered column definitions, in order
    atInit,        \* per instance: what ngOnInit found when it started
    calls,         \* per instance: the calls it made on the CdkTable
    quiet          \* per instance: no other instance touched the registry
                   \* since its ngOnInit started

vars == <<_table, injected, _options, _name, headerText, dataAccessor, justify,
          columnDef, phase, thrown, registry, atInit, calls, quiet>>

\* The static view children of the component's own template.
CellOf(c) == <<"CdkCellDef", c>>
HeaderCellOf(c) == <<"CdkHeaderCellDef", c>>

\* A CdkColumnDef as the template creates it: no name, no templates.
NewColumnDef == [name |-> Undefined, cell |-> Undefined, headerCell |-> Undefined]

\* CdkTable.addColumnDef: the table keeps a set of definitions in insertion
\* order, held by reference; a column definition is identified by the
\* instance that owns it.
AddColumnDef(reg, d) ==
    IF \E i \in 1..Len(reg) : reg[i] = d THEN reg ELSE Append(reg, d)

\* CdkTable.removeColumnDef: removes that definition, if registered.
RemoveColumnDef(reg, d) == SelectSeq(reg, LAMBDA x : x # d)

\* The names under which the table currently sees its registered
\* definitions (read through the references it holds).
RegisteredNames == [i \in 1..Len(registry) |-> columnDef[registry[i]].name]

NoSnapshot ==
    [ran |-> FALSE, name |-> Undefined, headerText |-> Undefined,
     dataAccessor |-> NoFn, registry |-> <<>>]

Init ==
    /\ _table \in [Comps -> BOOLEAN]
    /\ injected \in InjectedOptions
    /\ _options = Constructor_options(injected)
    /\ _name = [c \in Comps |-> Undefined]
    /\ headerText = [c \in Comps |-> Undefined]
    /\ dataAccessor = [c \in Comps |-> NoFn]
    /\ justify = [c \in Comps |-> "start"]
    /\ columnDef = [c \in Comps |-> NewColumnDef]
    /\ phase = [c \in Comps |-> "constructed"]
    /\ thrown = [c \in Comps |-> "none"]
    /\ registry = <<>>
    /\ atInit = [c \in Comps |-> NoSnapshot]
    /\ calls = [c \in Comps |-> <<>>]
    /\ quiet = [c \in Comps |-> TRUE]

\* -------------------------------------------------------------- inputs

\* A name setter that forgets the column definition.
NameSetter_noSync(c, n) ==
    /\ _name' = [_name EXCEPT ![c] = n]
    /\ UNCHANGED <<_table, injected, _options, headerText, dataAccessor, justify,
                   columnDef, phase, thrown, registry, atInit, calls, quiet>>

\* A name setter that keeps a defaulted header text following the name.
NameSetter_reheads(c, n) ==
    /\ _name' = [_name EXCEPT ![c] = n]
    /\ columnDef' = [columnDef EXCEPT ![c].name = n]
    /\ headerText' = [headerText EXCEPT ![c] =
                        IF atInit[c].ran /\ atInit[c].headerText = Undefined /\ n # <<>>
                        THEN <<UpperChar(n[1])>> \o SubSeq(n, 2, Len(n))
                        ELSE @]
    /\ UNCHANGED <<_table, injected, _options, dataAccessor, justify,
                   phase, thrown, registry, atInit, calls, quiet>>

\* set name(name): this._name = name; this.columnDef.name = name.
NameSetter(c, n) ==
    /\ _name' = [_name EXCEPT ![c] = n]
    /\ columnDef' = [columnDef EXCEPT ![c].name = n]
    /\ UNCHANGED <<_table, injected, _options, headerText, dataAccessor, justify,
                   phase, thrown, registry, atInit, calls, quiet>>

\* The template binds `name` at any time while the instance is alive.
SetName(c, n) ==
    /\ phase[c] # "destroyed"
    /\ NameSetter(c, n)

\* @Input() headerText, bound before ngOnInit runs.
SetHeaderText(c, h) ==
    /\ phase[c] = "constructed"
    /\ headerText' = [headerText EXCEPT ![c] = h]
    /\ UNCHANGED <<_table, injected, _options, _name, dataAccessor, justify,
                   columnDef, phase, thrown, registry, atInit, calls, quiet>>

\* @Input() dataAccessor, bound before ngOnInit runs.
SetDataAccessor(c, f) ==
    /\ phase[c] = "constructed"
    /\ dataAccessor' = [dataAccessor EXCEPT ![c] = f]
    /\ UNCHANGED <<_table, injected, _options, _name, headerText, justify,
                   columnDef, phase, thrown, registry, atInit, calls, quiet>>

\* @Input() justify, bound before ngOnInit runs.
SetJustify(c, j) ==
    /\ phase[c] = "constructed"
    /\ justify' = [justify EXCEPT ![c] = j]
    /\ UNCHANGED <<_table, injected, _options, _name, headerText, dataAccessor,
                   columnDef, phase, thrown, registry, atInit, calls, quiet>>

\* ------------------------------------------------------------ ngOnInit

\* A default header text that upper-cases the whole name.
CreateDefaultHeaderText_upperAll(options, name) ==
    IF options.defaultHeaderTextTransform # NoFn
    THEN ApplyTransform(options.defaultHeaderTextTransform, name)
    ELSE IF name = Undefined \/ name = <<>>
         THEN Throw("TypeError")
         ELSE Value(ToUpperCase(name))

\* _createDefaultHeaderText(): the options' transform of the name if one is
\* configured, otherwise this.name[0].toUpperCase() + this.name.slice(1).
\* Indexing undefined, and calling toUpperCase on the undefined first
\* character of the empty string, throw a TypeError.
CreateDefaultHeaderText(options, name) ==
    IF options.defaultHeaderTextTransform # NoFn
    THEN ApplyTransform(options.defaultHeaderTextTransform, name)
    ELSE IF name = Undefined \/ name = <<>>
         THEN Throw("TypeError")
         ELSE Value(<<UpperChar(name[1])>> \o Slice1(name))

\* if (this.headerText === undefined) this.headerText = this._createDefaultHeaderText()
ResolveHeaderText(input, options, name) ==
    IF input = Undefined THEN CreateDefaultHeaderText(options, name) ELSE Value(input)

\* if (!this.dataAccessor) this.dataAccessor =
\*     this._options.defaultDataAccessor || ((data, name) => data[name])
ResolveDataAccessor(input, options) ==
    IF input # NoFn THEN input
    ELSE IF options.defaultDataAccessor # NoFn THEN options.defaultDataAccessor
    ELSE PropertyLookup

\* An ngOnInit that looks for its table before it resolves anything.
NgOnInitResult_tableFirst(c) ==
    LET hdr == ResolveHeaderText(headerText[c], _options, _name[c])
        acc == ResolveDataAccessor(dataAccessor[c], _options)
    IN  IF ~_table[c]
        THEN [headerText |-> headerText[c], dataAccessor |-> dataAccessor[c],
              columnDef |-> columnDef[c],
              thrown |-> "MissingParentTableError", added |-> FALSE]
        ELSE IF hdr.throws # "none"
        THEN [headerText |-> headerText[c], dataAccessor |-> dataAccessor[c],
              columnDef |-> columnDef[c], thrown |-> hdr.throws, added |-> FALSE]
        ELSE [headerText |-> hdr.value, dataAccessor |-> acc,
              columnDef |-> [columnDef[c] EXCEPT !.cell = CellOf(c),
                                                 !.headerCell = HeaderCellOf(c)],
              thrown |-> "none", added |-> TRUE]

\* The body of ngOnInit, statement by statement: the fields as the call
\* leaves them, what it throws, and whether it reached addColumnDef.
NgOnInitResult(c) ==
    LET hdr == ResolveHeaderText(headerText[c], _options, _name[c])
        acc == ResolveDataAccessor(dataAccessor[c], _options)
    IN  IF hdr.throws # "none"
        THEN [headerText |-> headerText[c], dataAccessor |-> dataAccessor[c],
              columnDef |-> columnDef[c], thrown |-> hdr.throws, added |-> FALSE]
        ELSE IF _table[c]
        THEN [headerText |-> hdr.value, dataAccessor |-> acc,
              columnDef |-> [columnDef[c] EXCEPT !.cell = CellOf(c),
                                                 !.headerCell = HeaderCellOf(c)],
              thrown |-> "none", added |-> TRUE]
        ELSE [headerText |-> hdr.value, dataAccessor |-> acc,
              columnDef |-> columnDef[c],
              thrown |-> "MissingParentTableError", added |-> FALSE]

\* The calls an instance makes on its table are logged with the definition
\* passed (ref: whose definition it is) as it is at the moment of the call.
TableCall(op, hook, ref, def) == [op |-> op, hook |-> hook, ref |-> ref, def |-> def]

\* Another instance's change of the registry ends the quiet period of every
\* instance whose ngOnInit has started.
Disturb(c, changed) ==
    [d \in Comps |-> IF d # c /\ changed /\ atInit[d].ran THEN FALSE ELSE quiet[d]]

\* The framework runs ngOnInit once per instance, after the inputs are bound.
NgOnInit(c) ==
    /\ phase[c] = "constructed"
    /\ LET r == NgOnInitResult(c)
       IN  /\ headerText' = [headerText EXCEPT ![c] = r.headerText]
           /\ dataAccessor' = [dataAccessor EXCEPT ![c] = r.dataAccessor]
           /\ columnDef' = [columnDef EXCEPT ![c] = r.columnDef]
           /\ thrown' = [thrown EXCEPT ![c] = r.thrown]
           /\ phase' = [phase EXCEPT ![c] =
                           IF r.thrown = "none" THEN "initialized" ELSE "initFailed"]
           /\ registry' = IF r.added THEN AddColumnDef(registry, c) ELSE registry
           /\ calls' = IF r.added
                       THEN [calls EXCEPT ![c] =
                               Append(@, TableCall("addColumnDef", "ngOnInit", c, r.columnDef))]
                       ELSE calls
           /\ quiet' = Disturb(c, r.added)
    /\ atInit' = [atInit EXCEPT ![c] =
                    [ran |-> TRUE, name |-> _name[c], headerText |-> headerText[c],
                     dataAccessor |-> dataAccessor[c], registry |-> registry]]
    /\ UNCHANGED <<_table, injected, _options, _name, justify>>

\* ---------------------------------------------------------- ngOnDestroy

\* An ngOnDestroy whose guard is inverted, so that it never deregisters.
NgOnDestroyEffect_keeps(c) ==
    /\ UNCHANGED <<registry, calls, quiet>>

\* if (this._table) this._table.removeColumnDef(this.columnDef)
NgOnDestroyEffect(c) ==
    /\ registry' = IF _table[c] THEN RemoveColumnDef(registry, c) ELSE registry
    /\ calls' = IF _table[c]
                THEN [calls EXCEPT ![c] =
                        Append(@, TableCall("removeColumnDef", "ngOnDestroy", c,
                                          columnDef[c]))]
                ELSE calls
    /\ quiet' = Disturb(c, _table[c])

\* The framework runs ngOnDestroy once, when the view that ran ngOnInit
\* (whether or not it threw) is destroyed.
NgOnDestroy(c) ==
    /\ phase[c] \in {"initialized", "initFailed"}
    /\ NgOnDestroyEffect(c)
    /\ phase' = [phase EXCEPT ![c] = "destroyed"]
    /\ UNCHANGED <<_table, injected, _options, _name, headerText, dataAccessor,
                   justify, columnDef, thrown, atInit>>

\* ------------------------------------------------------ the specification

Next ==
    \E c \in Comps :
        \/ \E n \in NameInputs : SetName(c, n)
        \/ \E h \in HeaderTextInputs : c \in FullyBound /\ SetHeaderText(c, h)
        \/ \E f \in InputDataAccessors \cup {NoFn} :
              c \in FullyBound /\ SetDataAccessor(c, f)
        \/ \E j \in {"start", "end"} : c \in FullyBound /\ SetJustify(c, j)
        \/ NgOnInit(c)
        \/ NgOnDestroy(c)

Spec == Init /\ [][Next]_vars

\* ---------------------------------------------------------------- claims

InitRan(c) == atInit[c].ran

\* `name` with only its first character upper-cased.
Capitalized(name) ==
    [i \in 1..Len(name) |-> IF i = 1 THEN UpperChar(name[i]) ELSE name[i]]

\* The configured option `field`, NoFn when no options were provided at all.
Configured(field) ==
    IF injected = NoProvider THEN NoFn ELSE injected[field]

\* The header text ngOnInit is to leave, from what it found when it started.
ExpectedHeaderText(c) ==
    IF atInit[c].headerText # Undefined THEN atInit[c].headerText
    ELSE IF Configured("defaultHeaderTextTransform") # NoFn
    THEN ApplyTransform(Configured("defaultHeaderTextTransform"), atInit[c].name).value
    ELSE Capitalized(atInit[c].name)

\* The accessor ngOnInit is to leave, from what it found when it started.
ExpectedDataAccessor(c) ==
    IF atInit[c].dataAccessor # NoFn THEN atInit[c].dataAccessor
    ELSE IF Configured("defaultDataAccessor") # NoFn
    THEN Configured("defaultDataAccessor")
    ELSE PropertyLookup

AddCalls(c) == SelectSeq(calls[c], LAMBDA k : k.op = "addColumnDef")

\* C1: ngOnInit on an instance without a Host Table always fails with
\* MissingParentTableError, whatever the name, headerText, dataAccessor and
\* options are, and makes no addColumnDef call.
C1_MissingTableRaisesNamedError ==
    \A c \in Comps :
        InitRan(c) /\ ~_table[c] =>
            /\ thrown[c] = "MissingParentTableError"
            /\ AddCalls(c) = <<>>

\* C2: ngOnInit followed by ngOnDestroy on an instance with a Host Table,
\* with any name assignments in between and no other instance touching the
\* registry meanwhile, leaves the registry exactly as ngOnInit found it.
C2_RoundTripRestoresRegistry ==
    \A c \in Comps :
        _table[c] /\ phase[c] = "destroyed" /\ quiet[c] =>
            registry = atInit[c].registry

\* C2's case: a registered instance, renamed after registration, destroyed,
\* in a table that held another definition before.
C2_Witness ==
    \E c \in Comps :
        /\ _table[c] /\ phase[c] = "destroyed" /\ quiet[c]
        /\ Len(AddCalls(c)) = 1
        /\ atInit[c].registry # <<>>
        /\ _name[c] # atInit[c].name

\* C3: once name has been assigned, the instance's name and its column
\* definition's name are equal, before and after registration alike.
C3_NameInSync ==
    \A c \in Comps :
        _name[c] # Undefined => columnDef[c].name = _name[c]

\* C3's case: a name assigned after the definition was registered.
C3_Witness ==
    \E c \in Comps :
        /\ phase[c] = "initialized"
        /\ \E i \in 1..Len(registry) : registry[i] = c
        /\ _name[c] # Undefined
        /\ _name[c] # atInit[c].name

\* C4: after ngOnInit completes on an instance with a Host Table, headerText
\* is the input if it was defined (the empty string included), otherwise the
\* configured transform of the name, otherwise the name with only its first
\* character upper-cased; no provided options behave like empty options.
C4_HeaderTextResolved ==
    \A c \in Comps :
        InitRan(c) /\ _table[c] /\ thrown[c] = "none" =>
            headerText[c] = ExpectedHeaderText(c)

\* C4's case: no input, no transform, a two-character name: "aa" gives "Aa".
C4_Witness ==
    \E c \in Comps :
        /\ InitRan(c) /\ _table[c] /\ thrown[c] = "none"
        /\ atInit[c].headerText = Undefined
        /\ Configured("defaultHeaderTextTransform") = NoFn
        /\ atInit[c].name = <<"a", "a">>
        /\ headerText[c] = <<"A", "a">>

\* C5: after ngOnInit the data accessor is the input if one was set,
\* otherwise the configured default accessor, otherwise a function returning
\* row[name], undefined when the row has no such property.
C5_DataAccessorResolved ==
    \A c \in Comps :
        InitRan(c) =>
            /\ dataAccessor[c] = ExpectedDataAccessor(c)
            /\ dataAccessor[c] = PropertyLookup =>
                 \A row \in Rows, n \in NameInputs :
                    ApplyAccessor(dataAccessor[c], row, n) =
                        IF n \in DOMAIN row THEN row[n] ELSE "undefined"

\* C6: the definition passed to addColumnDef is fully populated at that
\* moment: its name is set and is the instance's name, its templates are
\* the instance's own cell and header-cell markers.
C6_RegisteredDefPopulated ==
    \A c \in Comps :
        \A i \in 1..Len(calls[c]) :
            calls[c][i].op = "addColumnDef" =>
                /\ calls[c][i].def.name # Undefined
                /\ calls[c][i].def.name = atInit[c].name
                /\ calls[c][i].def.cell = CellOf(c)
                /\ calls[c][i].def.headerCell = HeaderCellOf(c)

\* C7: the definitions registered in the Host Table have pairwise distinct
\* names.
C7_RegisteredNamesDistinct ==
    \A i, j \in 1..Len(registry) :
        i # j => RegisteredNames[i] # RegisteredNames[j]

\* C8: an instance with a Host Table calls addColumnDef exactly once, in
\* ngOnInit, and removeColumnDef exactly once, in ngOnDestroy, in that order
\* and on its own definition; an instance without one makes neither call.
C8_OneAddThenOneRemove ==
    \A c \in Comps :
        LET ops == [i \in 1..Len(calls[c]) |-> <<calls[c][i].op, calls[c][i].hook>>]
        IN  /\ \A i \in 1..Len(calls[c]) : calls[c][i].ref = c
            /\ ~_table[c] => calls[c] = <<>>
            /\ _table[c] /\ phase[c] = "constructed" => ops = <<>>
            /\ _table[c] /\ phase[c] \in {"initialized", "initFailed"} =>
                 ops = << <<"addColumnDef", "ngOnInit">> >>
            /\ _table[c] /\ phase[c] = "destroyed" =>
                 ops = << <<"addColumnDef", "ngOnInit">>,
                          <<"removeColumnDef", "ngOnDestroy">> >>

\* C9: assigning name after ngOnInit changes the name and the definition's
\* name and nothing else: headerText, dataAccessor, justify and the
\* registry stay as they are.
C9_RenameLeavesHeaderText ==
    [][\A c \in Comps :
          InitRan(c) /\ _name'[c] # _name[c] =>
              /\ columnDef'[c].name = _name'[c]
              /\ headerText' = headerText
              /\ dataAccessor' = dataAccessor
              /\ justify' = justify
              /\ registry' = registry]_vars

\* C9's case: a defaulted header text that still shows the name held at
\* ngOnInit after the instance was renamed.
C9_Witness ==
    \E c \in Comps :
        /\ phase[c] = "initialized"
        /\ atInit[c].headerText = Undefined
        /\ atInit[c].name = <<"a">>
        /\ _name[c] = <<"a", "a">>
        /\ headerText[c] = <<"A">>

\* C10: when ngOnInit ends with MissingParentTableError, headerText and
\* dataAccessor already hold their resolved values, and the definition's
\* cell and header-cell templates have not been assigned.
C10_FailedInitResolvedInputs ==
    \A c \in Comps :
        thrown[c] = "MissingParentTableError" =>
            /\ headerText[c] = ExpectedHeaderText(c)
            /\ headerText[c] # Undefined
            /\ dataAccessor[c] = ExpectedDataAccessor(c)
            /\ dataAccessor[c] # NoFn
            /\ columnDef[c].cell = Undefined
            /\ columnDef[c].headerCell = Undefined

\* C10's case: a failed ngOnInit that changed both fields.
C10_Witness ==
    \E c \in Comps :
        /\ thrown[c] = "MissingParentTableError"
        /\ atInit[c].headerText = Undefined
        /\ atInit[c].dataAccessor = NoFn
        /\ headerText[c] = <<"A", "a">>
        /\ dataAccessor[c] = PropertyLookup

====
